---- MODULE Spec2Model ----
(***************************************************************************)
(* Model of the two maintenance scripts of the repository:                 *)
(*   Scripts/apply_design_system.py  (the design-system codemod)           *)
(*   fix_icon_alpha.py               (alpha removal for the app icon)      *)
(* Text is modelled character by character: a text is a sequence of        *)
(* one-character strings, a regular expression is a sequence of elements   *)
(* (a literal character, "\\d*", "\\s*" or a character class).             *)
(***************************************************************************)
EXTENDS Integers, Sequences, FiniteSets, TLC

\* ------------------------------------------------------------------------
\* Regular expressions as used by the rule tables (re.sub, line 151 ff.)
\* ------------------------------------------------------------------------

Digits == {"0","1","2","3","4","5","6","7","8","9"}

Whitespace == {" ", "\t", "\n", "\r"}

\* A (pattern, replacement) pair of a rule table.
Rule(p, r) == [pat |-> p, rep |-> r]

\* Does pattern element e accept the single character c?
Accepts(e, c) ==
  CASE e = "[678]" -> c \in {"6","7","8"}
    [] e = "[05]"  -> c \in {"0","5"}
    [] e = "[78]"  -> c \in {"7","8"}
    [] OTHER       -> e = c

\* Index of the first position >= i of s whose character is not in set cs
\* (Len(s)+1 when there is none): the greedy run of a starred class.
RECURSIVE SkipRun(_, _, _)
SkipRun(cs, s, i) ==
  IF i <= Len(s) /\ s[i] \in cs THEN SkipRun(cs, s, i + 1) ELSE i

\* The starred elements, and the characters each of them repeats.
Starred == {"\\d*", "\\s*"}

RunOf(e) == IF e = "\\d*" THEN Digits ELSE Whitespace

\* The first index >= pi of a starred element of pat, Len(pat)+1 if none.
NextStar(pat, pi) ==
  LET stars == {n \in pi..Len(pat) : pat[n] \in Starred}
  IN  IF stars = {} THEN Len(pat) + 1
      ELSE CHOOSE n \in stars : \A m \in stars : n <= m

\* re.match of pat[pi..] at position si of s: the position just after the
\* match, or 0 when there is none.  The elements up to the next starred one
\* each take exactly one character; a starred element takes its greedy run.
\* In every pattern of the tables the element after "\\d*" is not a digit
\* and the element after "\\s*" is not whitespace, so the greedy run never
\* has to give characters back.
RECURSIVE MatchFrom(_, _, _, _)
MatchFrom(pat, pi, s, si) ==
  LET n == NextStar(pat, pi)
      fixed == n - pi
  IN  IF si + fixed - 1 > Len(s) THEN 0
      ELSE IF \E d \in 0..(fixed - 1) : ~Accepts(pat[pi + d], s[si + d]) THEN 0
      ELSE IF n > Len(pat) THEN si + fixed
      ELSE MatchFrom(pat, n + 1, s, SkipRun(RunOf(pat[n]), s, si + fixed))

\* re.search(pattern, s, pos = i).start(): the leftmost position >= i at
\* which the pattern matches, or 0 when it matches nowhere.
SearchFrom(pat, s, i) ==
  LET starts == {k \in i..Len(s) :
                   /\ pat[1] \in Starred \/ Accepts(pat[1], s[k])
                   /\ MatchFrom(pat, 1, s, k) > 0}
  IN  IF starts = {} THEN 0
      ELSE CHOOSE k \in starts : \A m \in starts : k <= m

\* re.sub(pattern, replacement, s) from position i on: leftmost matches,
\* left to right, non-overlapping; unmatched characters are copied.
RECURSIVE SubFrom(_, _, _)
SubFrom(rule, s, i) ==
  LET k == SearchFrom(rule.pat, s, i)
  IN  IF k = 0 THEN SubSeq(s, i, Len(s))
      ELSE SubSeq(s, i, k - 1) \o rule.rep
             \o SubFrom(rule, s, MatchFrom(rule.pat, 1, s, k))

re_sub(rule, s) == SubFrom(rule, s, 1)

\* for pattern, replacement in TABLE: content = re.sub(...)  -- the rules of
\* a table run one after the other on the progressively rewritten text.
\* The rules lo..hi of a table, in order (the range is halved, so that the
\* evaluation does not nest once per rule).
RECURSIVE ApplyRange(_, _, _, _)
ApplyRange(table, lo, hi, s) ==
  IF lo = hi THEN re_sub(table[lo], s)
  ELSE LET mid == (lo + hi) \div 2
           t == ApplyRange(table, lo, mid, s)
       IN  IF t = s THEN ApplyRange(table, mid + 1, hi, s)
           ELSE ApplyRange(table, mid + 1, hi, t)

ApplyTable(table, s) == ApplyRange(table, 1, Len(table), s)

\* needle in s (Python's substring test), and s.find(needle) as a position.
RECURSIVE FindFrom(_, _, _)
FindFrom(needle, s, i) ==
  IF i + Len(needle) - 1 > Len(s) THEN 0
  ELSE IF SubSeq(s, i, i + Len(needle) - 1) = needle THEN i
  ELSE FindFrom(needle, s, i + 1)

Contains(needle, s) == FindFrom(needle, s, 1) > 0

\* s.replace(old, new, 1)
ReplaceFirst(s, old, new) ==
  LET i == FindFrom(old, s, 1)
  IN  IF i = 0 THEN s
      ELSE SubSeq(s, 1, i - 1) \o new \o SubSeq(s, i + Len(old), Len(s))

\* ------------------------------------------------------------------------
\* The six rule tables (apply_design_system.py lines 16-139)
\* ------------------------------------------------------------------------

COLOR_REPLACEMENTS == <<
  \* line 17: Color\(red: 1\.0, green: 0\.55, blue: 0\.26\)  ->  DesignSystem.Colors.primaryAccent
  Rule(<<"C","o","l","o","r","(","r","e","d",":"," ","1",".","0",","," ","g","r","e","e","n",":"," ","0",".","5","5",","," ","b","l","u","e",":"," ","0",".","2","6",")">>,
       <<"D","e","s","i","g","n","S","y","s","t","e","m",".","C","o","l","o","r","s",".","p","r","i","m","a","r","y","A","c","c","e","n","t">>),
  \* line 18: Color\(red: 0\.11, green: 0\.105, blue: 0\.102\)  ->  DesignSystem.Colors.surfaceBackground
  Rule(<<"C","o","l","o","r","(","r","e","d",":"," ","0",".","1","1",","," ","g","r","e","e","n",":"," ","0",".","1","0","5",","," ","b","l","u","e",":"," ","0",".","1","0","2",")">>,
       <<"D","e","s","i","g","n","S","y","s","t","e","m",".","C","o","l","o","r","s",".","s","u","r","f","a","c","e","B","a","c","k","g","r","o","u","n","d">>),
  \* line 19: \.white\.opacity\(0\.7\d*\)  ->  DesignSystem.Colors.textSecondary
  Rule(<<".","w","h","i","t","e",".","o","p","a","c","i","t","y","(","0",".","7","\\d*",")">>,
       <<"D","e","s","i","g","n","S","y","s","t","e","m",".","C","o","l","o","r","s",".","t","e","x","t","S","e","c","o","n","d","a","r","y">>),
  \* line 20: \.white\.opacity\(0\.5\d*\)  ->  DesignSystem.Colors.textTertiary
  Rule(<<".","w","h","i","t","e",".","o","p","a","c","i","t","y","(","0",".","5","\\d*",")">>,
       <<"D","e","s","i","g","n","S","y","s","t","e","m",".","C","o","l","o","r","s",".","t","e","x","t","T","e","r","t","i","a","r","y">>),
  \* line 21: \.white\.opacity\(0\.3\d*\)  ->  DesignSystem.Colors.textQuaternary
  Rule(<<".","w","h","i","t","e",".","o","p","a","c","i","t","y","(","0",".","3","\\d*",")">>,
       <<"D","e","s","i","g","n","S","y","s","t","e","m",".","C","o","l","o","r","s",".","t","e","x","t","Q","u","a","t","e","r","n","a","r","y">>),
  \* line 22: Color\.white\.opacity\(0\.7\d*\)  ->  DesignSystem.Colors.textSecondary
  Rule(<<"C","o","l","o","r",".","w","h","i","t","e",".","o","p","a","c","i","t","y","(","0",".","7","\\d*",")">>,
       <<"D","e","s","i","g","n","S","y","s","t","e","m",".","C","o","l","o","r","s",".","t","e","x","t","S","e","c","o","n","d","a","r","y">>),
  \* line 23: Color\.white\.opacity\(0\.5\d*\)  ->  DesignSystem.Colors.textTertiary
  Rule(<<"C","o","l","o","r",".","w","h","i","t","e",".","o","p","a","c","i","t","y","(","0",".","5","\\d*",")">>,
       <<"D","e","s","i","g","n","S","y","s","t","e","m",".","C","o","l","o","r","s",".","t","e","x","t","T","e","r","t","i","a","r","y">>),
  \* line 24: Color\.white\.opacity\(0\.3\d*\)  ->  DesignSystem.Colors.textQuaternary
  Rule(<<"C","o","l","o","r",".","w","h","i","t","e",".","o","p","a","c","i","t","y","(","0",".","3","\\d*",")">>,
       <<"D","e","s","i","g","n","S","y","s","t","e","m",".","C","o","l","o","r","s",".","t","e","x","t","Q","u","a","t","e","r","n","a","r","y">>)
>>

OPACITY_REPLACEMENTS == <<
  \* line 29: \.opacity\(0\.03\)  ->  .opacity(0.05)
  Rule(<<".","o","p","a","c","i","t","y","(","0",".","0","3",")">>,
       <<".","o","p","a","c","i","t","y","(","0",".","0","5",")">>),
  \* line 30: \.opacity\(0\.04\)  ->  .opacity(0.05)
  Rule(<<".","o","p","a","c","i","t","y","(","0",".","0","4",")">>,
       <<".","o","p","a","c","i","t","y","(","0",".","0","5",")">>),
  \* line 31: \.opacity\(0\.06\)  ->  .opacity(0.05)
  Rule(<<".","o","p","a","c","i","t","y","(","0",".","0","6",")">>,
       <<".","o","p","a","c","i","t","y","(","0",".","0","5",")">>),
  \* line 32: \.opacity\(0\.07\)  ->  .opacity(0.05)
  Rule(<<".","o","p","a","c","i","t","y","(","0",".","0","7",")">>,
       <<".","o","p","a","c","i","t","y","(","0",".","0","5",")">>),
  \* line 33: \.opacity\(0\.08\)  ->  .opacity(0.10)
  Rule(<<".","o","p","a","c","i","t","y","(","0",".","0","8",")">>,
       <<".","o","p","a","c","i","t","y","(","0",".","1","0",")">>),
  \* line 34: \.opacity\(0\.09\)  ->  .opacity(0.10)
  Rule(<<".","o","p","a","c","i","t","y","(","0",".","0","9",")">>,
       <<".","o","p","a","c","i","t","y","(","0",".","1","0",")">>),
  \* line 35: \.opacity\(0\.12\)  ->  .opacity(0.10)
  Rule(<<".","o","p","a","c","i","t","y","(","0",".","1","2",")">>,
       <<".","o","p","a","c","i","t","y","(","0",".","1","0",")">>),
  \* line 36: \.opacity\(0\.13\)  ->  .opacity(0.15)
  Rule(<<".","o","p","a","c","i","t","y","(","0",".","1","3",")">>,
       <<".","o","p","a","c","i","t","y","(","0",".","1","5",")">>),
  \* line 37: \.opacity\(0\.14\)  ->  .opacity(0.15)
  Rule(<<".","o","p","a","c","i","t","y","(","0",".","1","4",")">>,
       <<".","o","p","a","c","i","t","y","(","0",".","1","5",")">>),
  \* line 38: \.opacity\(0\.16\)  ->  .opacity(0.15)
  Rule(<<".","o","p","a","c","i","t","y","(","0",".","1","6",")">>,
       <<".","o","p","a","c","i","t","y","(","0",".","1","5",")">>),
  \* line 39: \.opacity\(0\.17\)  ->  .opacity(0.15)
  Rule(<<".","o","p","a","c","i","t","y","(","0",".","1","7",")">>,
       <<".","o","p","a","c","i","t","y","(","0",".","1","5",")">>),
  \* line 40: \.opacity\(0\.18\)  ->  .opacity(0.20)
  Rule(<<".","o","p","a","c","i","t","y","(","0",".","1","8",")">>,
       <<".","o","p","a","c","i","t","y","(","0",".","2","0",")">>),
  \* line 41: \.opacity\(0\.19\)  ->  .opacity(0.20)
  Rule(<<".","o","p","a","c","i","t","y","(","0",".","1","9",")">>,
       <<".","o","p","a","c","i","t","y","(","0",".","2","0",")">>),
  \* line 42: \.opacity\(0\.22\)  ->  .opacity(0.20)
  Rule(<<".","o","p","a","c","i","t","y","(","0",".","2","2",")">>,
       <<".","o","p","a","c","i","t","y","(","0",".","2","0",")">>),
  \* line 43: \.opacity\(0\.23\)  ->  .opacity(0.25)
  Rule(<<".","o","p","a","c","i","t","y","(","0",".","2","3",")">>,
       <<".","o","p","a","c","i","t","y","(","0",".","2","5",")">>),
  \* line 44: \.opacity\(0\.24\)  ->  .opacity(0.25)
  Rule(<<".","o","p","a","c","i","t","y","(","0",".","2","4",")">>,
       <<".","o","p","a","c","i","t","y","(","0",".","2","5",")">>),
  \* line 45: \.opacity\(0\.26\)  ->  .opacity(0.25)
  Rule(<<".","o","p","a","c","i","t","y","(","0",".","2","6",")">>,
       <<".","o","p","a","c","i","t","y","(","0",".","2","5",")">>),
  \* line 46: \.opacity\(0\.27\)  ->  .opacity(0.25)
  Rule(<<".","o","p","a","c","i","t","y","(","0",".","2","7",")">>,
       <<".","o","p","a","c","i","t","y","(","0",".","2","5",")">>),
  \* line 47: \.opacity\(0\.28\)  ->  .opacity(0.30)
  Rule(<<".","o","p","a","c","i","t","y","(","0",".","2","8",")">>,
       <<".","o","p","a","c","i","t","y","(","0",".","3","0",")">>),
  \* line 48: \.opacity\(0\.29\)  ->  .opacity(0.30)
  Rule(<<".","o","p","a","c","i","t","y","(","0",".","2","9",")">>,
       <<".","o","p","a","c","i","t","y","(","0",".","3","0",")">>),
  \* line 49: \.opacity\(0\.32\)  ->  .opacity(0.30)
  Rule(<<".","o","p","a","c","i","t","y","(","0",".","3","2",")">>,
       <<".","o","p","a","c","i","t","y","(","0",".","3","0",")">>),
  \* line 50: \.opacity\(0\.33\)  ->  .opacity(0.35)
  Rule(<<".","o","p","a","c","i","t","y","(","0",".","3","3",")">>,
       <<".","o","p","a","c","i","t","y","(","0",".","3","5",")">>),
  \* line 51: \.opacity\(0\.34\)  ->  .opacity(0.35)
  Rule(<<".","o","p","a","c","i","t","y","(","0",".","3","4",")">>,
       <<".","o","p","a","c","i","t","y","(","0",".","3","5",")">>),
  \* line 52: \.opacity\(0\.36\)  ->  .opacity(0.35)
  Rule(<<".","o","p","a","c","i","t","y","(","0",".","3","6",")">>,
       <<".","o","p","a","c","i","t","y","(","0",".","3","5",")">>),
  \* line 53: \.opacity\(0\.37\)  ->  .opacity(0.35)
  Rule(<<".","o","p","a","c","i","t","y","(","0",".","3","7",")">>,
       <<".","o","p","a","c","i","t","y","(","0",".","3","5",")">>),
  \* line 54: \.opacity\(0\.38\)  ->  .opacity(0.40)
  Rule(<<".","o","p","a","c","i","t","y","(","0",".","3","8",")">>,
       <<".","o","p","a","c","i","t","y","(","0",".","4","0",")">>),
  \* line 55: \.opacity\(0\.39\)  ->  .opacity(0.40)
  Rule(<<".","o","p","a","c","i","t","y","(","0",".","3","9",")">>,
       <<".","o","p","a","c","i","t","y","(","0",".","4","0",")">>),
  \* line 56: \.opacity\(0\.42\)  ->  .opacity(0.40)
  Rule(<<".","o","p","a","c","i","t","y","(","0",".","4","2",")">>,
       <<".","o","p","a","c","i","t","y","(","0",".","4","0",")">>),
  \* line 57: \.opacity\(0\.43\)  ->  .opacity(0.45)
  Rule(<<".","o","p","a","c","i","t","y","(","0",".","4","3",")">>,
       <<".","o","p","a","c","i","t","y","(","0",".","4","5",")">>),
  \* line 58: \.opacity\(0\.44\)  ->  .opacity(0.45)
  Rule(<<".","o","p","a","c","i","t","y","(","0",".","4","4",")">>,
       <<".","o","p","a","c","i","t","y","(","0",".","4","5",")">>),
  \* line 59: \.opacity\(0\.46\)  ->  .opacity(0.45)
  Rule(<<".","o","p","a","c","i","t","y","(","0",".","4","6",")">>,
       <<".","o","p","a","c","i","t","y","(","0",".","4","5",")">>),
  \* line 60: \.opacity\(0\.47\)  ->  .opacity(0.45)
  Rule(<<".","o","p","a","c","i","t","y","(","0",".","4","7",")">>,
       <<".","o","p","a","c","i","t","y","(","0",".","4","5",")">>),
  \* line 61: \.opacity\(0\.48\)  ->  .opacity(0.50)
  Rule(<<".","o","p","a","c","i","t","y","(","0",".","4","8",")">>,
       <<".","o","p","a","c","i","t","y","(","0",".","5","0",")">>),
  \* line 62: \.opacity\(0\.49\)  ->  .opacity(0.50)
  Rule(<<".","o","p","a","c","i","t","y","(","0",".","4","9",")">>,
       <<".","o","p","a","c","i","t","y","(","0",".","5","0",")">>),
  \* line 63: \.opacity\(0\.52\)  ->  .opacity(0.50)
  Rule(<<".","o","p","a","c","i","t","y","(","0",".","5","2",")">>,
       <<".","o","p","a","c","i","t","y","(","0",".","5","0",")">>),
  \* line 64: \.opacity\(0\.53\)  ->  .opacity(0.55)
  Rule(<<".","o","p","a","c","i","t","y","(","0",".","5","3",")">>,
       <<".","o","p","a","c","i","t","y","(","0",".","5","5",")">>),
  \* line 65: \.opacity\(0\.54\)  ->  .opacity(0.55)
  Rule(<<".","o","p","a","c","i","t","y","(","0",".","5","4",")">>,
       <<".","o","p","a","c","i","t","y","(","0",".","5","5",")">>),
  \* line 66: \.opacity\(0\.56\)  ->  .opacity(0.55)
  Rule(<<".","o","p","a","c","i","t","y","(","0",".","5","6",")">>,
       <<".","o","p","a","c","i","t","y","(","0",".","5","5",")">>),
  \* line 67: \.opacity\(0\.57\)  ->  .opacity(0.55)
  Rule(<<".","o","p","a","c","i","t","y","(","0",".","5","7",")">>,
       <<".","o","p","a","c","i","t","y","(","0",".","5","5",")">>),
  \* line 68: \.opacity\(0\.58\)  ->  .opacity(0.60)
  Rule(<<".","o","p","a","c","i","t","y","(","0",".","5","8",")">>,
       <<".","o","p","a","c","i","t","y","(","0",".","6","0",")">>),
  \* line 69: \.opacity\(0\.59\)  ->  .opacity(0.60)
  Rule(<<".","o","p","a","c","i","t","y","(","0",".","5","9",")">>,
       <<".","o","p","a","c","i","t","y","(","0",".","6","0",")">>),
  \* line 70: \.opacity\(0\.62\)  ->  .opacity(0.60)
  Rule(<<".","o","p","a","c","i","t","y","(","0",".","6","2",")">>,
       <<".","o","p","a","c","i","t","y","(","0",".","6","0",")">>),
  \* line 71: \.opacity\(0\.63\)  ->  .opacity(0.65)
  Rule(<<".","o","p","a","c","i","t","y","(","0",".","6","3",")">>,
       <<".","o","p","a","c","i","t","y","(","0",".","6","5",")">>),
  \* line 72: \.opacity\(0\.64\)  ->  .opacity(0.65)
  Rule(<<".","o","p","a","c","i","t","y","(","0",".","6","4",")">>,
       <<".","o","p","a","c","i","t","y","(","0",".","6","5",")">>),
  \* line 73: \.opacity\(0\.66\)  ->  .opacity(0.65)
  Rule(<<".","o","p","a","c","i","t","y","(","0",".","6","6",")">>,
       <<".","o","p","a","c","i","t","y","(","0",".","6","5",")">>),
  \* line 74: \.opacity\(0\.67\)  ->  .opacity(0.65)
  Rule(<<".","o","p","a","c","i","t","y","(","0",".","6","7",")">>,
       <<".","o","p","a","c","i","t","y","(","0",".","6","5",")">>),
  \* line 75: \.opacity\(0\.68\)  ->  .opacity(0.70)
  Rule(<<".","o","p","a","c","i","t","y","(","0",".","6","8",")">>,
       <<".","o","p","a","c","i","t","y","(","0",".","7","0",")">>),
  \* line 76: \.opacity\(0\.69\)  ->  .opacity(0.70)
  Rule(<<".","o","p","a","c","i","t","y","(","0",".","6","9",")">>,
       <<".","o","p","a","c","i","t","y","(","0",".","7","0",")">>),
  \* line 77: \.opacity\(0\.72\)  ->  .opacity(0.70)
  Rule(<<".","o","p","a","c","i","t","y","(","0",".","7","2",")">>,
       <<".","o","p","a","c","i","t","y","(","0",".","7","0",")">>),
  \* line 78: \.opacity\(0\.73\)  ->  .opacity(0.75)
  Rule(<<".","o","p","a","c","i","t","y","(","0",".","7","3",")">>,
       <<".","o","p","a","c","i","t","y","(","0",".","7","5",")">>),
  \* line 79: \.opacity\(0\.74\)  ->  .opacity(0.75)
  Rule(<<".","o","p","a","c","i","t","y","(","0",".","7","4",")">>,
       <<".","o","p","a","c","i","t","y","(","0",".","7","5",")">>),
  \* line 80: \.opacity\(0\.76\)  ->  .opacity(0.75)
  Rule(<<".","o","p","a","c","i","t","y","(","0",".","7","6",")">>,
       <<".","o","p","a","c","i","t","y","(","0",".","7","5",")">>),
  \* line 81: \.opacity\(0\.77\)  ->  .opacity(0.75)
  Rule(<<".","o","p","a","c","i","t","y","(","0",".","7","7",")">>,
       <<".","o","p","a","c","i","t","y","(","0",".","7","5",")">>),
  \* line 82: \.opacity\(0\.78\)  ->  .opacity(0.80)
  Rule(<<".","o","p","a","c","i","t","y","(","0",".","7","8",")">>,
       <<".","o","p","a","c","i","t","y","(","0",".","8","0",")">>),
  \* line 83: \.opacity\(0\.79\)  ->  .opacity(0.80)
  Rule(<<".","o","p","a","c","i","t","y","(","0",".","7","9",")">>,
       <<".","o","p","a","c","i","t","y","(","0",".","8","0",")">>),
  \* line 84: \.opacity\(0\.82\)  ->  .opacity(0.80)
  Rule(<<".","o","p","a","c","i","t","y","(","0",".","8","2",")">>,
       <<".","o","p","a","c","i","t","y","(","0",".","8","0",")">>),
  \* line 85: \.opacity\(0\.83\)  ->  .opacity(0.85)
  Rule(<<".","o","p","a","c","i","t","y","(","0",".","8","3",")">>,
       <<".","o","p","a","c","i","t","y","(","0",".","8","5",")">>),
  \* line 86: \.opacity\(0\.84\)  ->  .opacity(0.85)
  Rule(<<".","o","p","a","c","i","t","y","(","0",".","8","4",")">>,
       <<".","o","p","a","c","i","t","y","(","0",".","8","5",")">>),
  \* line 87: \.opacity\(0\.86\)  ->  .opacity(0.85)
  Rule(<<".","o","p","a","c","i","t","y","(","0",".","8","6",")">>,
       <<".","o","p","a","c","i","t","y","(","0",".","8","5",")">>),
  \* line 88: \.opacity\(0\.87\)  ->  .opacity(0.85)
  Rule(<<".","o","p","a","c","i","t","y","(","0",".","8","7",")">>,
       <<".","o","p","a","c","i","t","y","(","0",".","8","5",")">>),
  \* line 89: \.opacity\(0\.88\)  ->  .opacity(0.90)
  Rule(<<".","o","p","a","c","i","t","y","(","0",".","8","8",")">>,
       <<".","o","p","a","c","i","t","y","(","0",".","9","0",")">>),
  \* line 90: \.opacity\(0\.89\)  ->  .opacity(0.90)
  Rule(<<".","o","p","a","c","i","t","y","(","0",".","8","9",")">>,
       <<".","o","p","a","c","i","t","y","(","0",".","9","0",")">>),
  \* line 91: \.opacity\(0\.92\)  ->  .opacity(0.90)
  Rule(<<".","o","p","a","c","i","t","y","(","0",".","9","2",")">>,
       <<".","o","p","a","c","i","t","y","(","0",".","9","0",")">>),
  \* line 92: \.opacity\(0\.93\)  ->  .opacity(0.95)
  Rule(<<".","o","p","a","c","i","t","y","(","0",".","9","3",")">>,
       <<".","o","p","a","c","i","t","y","(","0",".","9","5",")">>),
  \* line 93: \.opacity\(0\.94\)  ->  .opacity(0.95)
  Rule(<<".","o","p","a","c","i","t","y","(","0",".","9","4",")">>,
       <<".","o","p","a","c","i","t","y","(","0",".","9","5",")">>),
  \* line 94: \.opacity\(0\.96\)  ->  .opacity(0.95)
  Rule(<<".","o","p","a","c","i","t","y","(","0",".","9","6",")">>,
       <<".","o","p","a","c","i","t","y","(","0",".","9","5",")">>),
  \* line 95: \.opacity\(0\.97\)  ->  .opacity(0.95)
  Rule(<<".","o","p","a","c","i","t","y","(","0",".","9","7",")">>,
       <<".","o","p","a","c","i","t","y","(","0",".","9","5",")">>),
  \* line 96: \.opacity\(0\.98\)  ->  .opacity(1.0)
  Rule(<<".","o","p","a","c","i","t","y","(","0",".","9","8",")">>,
       <<".","o","p","a","c","i","t","y","(","1",".","0",")">>),
  \* line 97: \.opacity\(0\.99\)  ->  .opacity(1.0)
  Rule(<<".","o","p","a","c","i","t","y","(","0",".","9","9",")">>,
       <<".","o","p","a","c","i","t","y","(","1",".","0",")">>)
>>

CORNER_RADIUS_REPLACEMENTS == <<
  \* line 102: cornerRadius:\s*14  ->  cornerRadius: DesignSystem.CornerRadius.card
  Rule(<<"c","o","r","n","e","r","R","a","d","i","u","s",":","\\s*","1","4">>,
       <<"c","o","r","n","e","r","R","a","d","i","u","s",":"," ","D","e","s","i","g","n","S","y","s","t","e","m",".","C","o","r","n","e","r","R","a","d","i","u","s",".","c","a","r","d">>),
  \* line 103: cornerRadius:\s*16  ->  cornerRadius: DesignSystem.CornerRadius.card
  Rule(<<"c","o","r","n","e","r","R","a","d","i","u","s",":","\\s*","1","6">>,
       <<"c","o","r","n","e","r","R","a","d","i","u","s",":"," ","D","e","s","i","g","n","S","y","s","t","e","m",".","C","o","r","n","e","r","R","a","d","i","u","s",".","c","a","r","d">>),
  \* line 104: cornerRadius:\s*18  ->  cornerRadius: DesignSystem.CornerRadius.card
  Rule(<<"c","o","r","n","e","r","R","a","d","i","u","s",":","\\s*","1","8">>,
       <<"c","o","r","n","e","r","R","a","d","i","u","s",":"," ","D","e","s","i","g","n","S","y","s","t","e","m",".","C","o","r","n","e","r","R","a","d","i","u","s",".","c","a","r","d">>),
  \* line 105: cornerRadius:\s*20  ->  cornerRadius: DesignSystem.CornerRadius.large
  Rule(<<"c","o","r","n","e","r","R","a","d","i","u","s",":","\\s*","2","0">>,
       <<"c","o","r","n","e","r","R","a","d","i","u","s",":"," ","D","e","s","i","g","n","S","y","s","t","e","m",".","C","o","r","n","e","r","R","a","d","i","u","s",".","l","a","r","g","e">>),
  \* line 106: cornerRadius:\s*10  ->  cornerRadius: DesignSystem.CornerRadius.medium
  Rule(<<"c","o","r","n","e","r","R","a","d","i","u","s",":","\\s*","1","0">>,
       <<"c","o","r","n","e","r","R","a","d","i","u","s",":"," ","D","e","s","i","g","n","S","y","s","t","e","m",".","C","o","r","n","e","r","R","a","d","i","u","s",".","m","e","d","i","u","m">>),
  \* line 107: cornerRadius:\s*12  ->  cornerRadius: DesignSystem.CornerRadius.medium
  Rule(<<"c","o","r","n","e","r","R","a","d","i","u","s",":","\\s*","1","2">>,
       <<"c","o","r","n","e","r","R","a","d","i","u","s",":"," ","D","e","s","i","g","n","S","y","s","t","e","m",".","C","o","r","n","e","r","R","a","d","i","u","s",".","m","e","d","i","u","m">>),
  \* line 108: cornerRadius:\s*8  ->  cornerRadius: DesignSystem.CornerRadius.small
  Rule(<<"c","o","r","n","e","r","R","a","d","i","u","s",":","\\s*","8">>,
       <<"c","o","r","n","e","r","R","a","d","i","u","s",":"," ","D","e","s","i","g","n","S","y","s","t","e","m",".","C","o","r","n","e","r","R","a","d","i","u","s",".","s","m","a","l","l">>),
  \* line 109: cornerRadius:\s*6  ->  cornerRadius: DesignSystem.CornerRadius.small
  Rule(<<"c","o","r","n","e","r","R","a","d","i","u","s",":","\\s*","6">>,
       <<"c","o","r","n","e","r","R","a","d","i","u","s",":"," ","D","e","s","i","g","n","S","y","s","t","e","m",".","C","o","r","n","e","r","R","a","d","i","u","s",".","s","m","a","l","l">>)
>>

ANIMATION_REPLACEMENTS == <<
  \* line 114: \.spring\(response:\s*0\.3,\s*dampingFraction:\s*0\.[678]\)  ->  DesignSystem.Animation.springStandard
  Rule(<<".","s","p","r","i","n","g","(","r","e","s","p","o","n","s","e",":","\\s*","0",".","3",",","\\s*","d","a","m","p","i","n","g","F","r","a","c","t","i","o","n",":","\\s*","0",".","[678]",")">>,
       <<"D","e","s","i","g","n","S","y","s","t","e","m",".","A","n","i","m","a","t","i","o","n",".","s","p","r","i","n","g","S","t","a","n","d","a","r","d">>),
  \* line 115: \.spring\(response:\s*0\.3,\s*dampingFraction:\s*0\.8\)  ->  DesignSystem.Animation.springStandard
  Rule(<<".","s","p","r","i","n","g","(","r","e","s","p","o","n","s","e",":","\\s*","0",".","3",",","\\s*","d","a","m","p","i","n","g","F","r","a","c","t","i","o","n",":","\\s*","0",".","8",")">>,
       <<"D","e","s","i","g","n","S","y","s","t","e","m",".","A","n","i","m","a","t","i","o","n",".","s","p","r","i","n","g","S","t","a","n","d","a","r","d">>),
  \* line 116: \.spring\(response:\s*0\.4,\s*dampingFraction:\s*0\.8[05]\)  ->  DesignSystem.Animation.springSmooth
  Rule(<<".","s","p","r","i","n","g","(","r","e","s","p","o","n","s","e",":","\\s*","0",".","4",",","\\s*","d","a","m","p","i","n","g","F","r","a","c","t","i","o","n",":","\\s*","0",".","8","[05]",")">>,
       <<"D","e","s","i","g","n","S","y","s","t","e","m",".","A","n","i","m","a","t","i","o","n",".","s","p","r","i","n","g","S","m","o","o","t","h">>),
  \* line 117: \.spring\(response:\s*0\.2,\s*dampingFraction:\s*0\.[78]\)  ->  DesignSystem.Animation.springQuick
  Rule(<<".","s","p","r","i","n","g","(","r","e","s","p","o","n","s","e",":","\\s*","0",".","2",",","\\s*","d","a","m","p","i","n","g","F","r","a","c","t","i","o","n",":","\\s*","0",".","[78]",")">>,
       <<"D","e","s","i","g","n","S","y","s","t","e","m",".","A","n","i","m","a","t","i","o","n",".","s","p","r","i","n","g","Q","u","i","c","k">>),
  \* line 118: \.easeInOut\(duration:\s*0\.2\)  ->  DesignSystem.Animation.easeQuick
  Rule(<<".","e","a","s","e","I","n","O","u","t","(","d","u","r","a","t","i","o","n",":","\\s*","0",".","2",")">>,
       <<"D","e","s","i","g","n","S","y","s","t","e","m",".","A","n","i","m","a","t","i","o","n",".","e","a","s","e","Q","u","i","c","k">>),
  \* line 119: \.easeInOut\(duration:\s*0\.3\)  ->  DesignSystem.Animation.easeStandard
  Rule(<<".","e","a","s","e","I","n","O","u","t","(","d","u","r","a","t","i","o","n",":","\\s*","0",".","3",")">>,
       <<"D","e","s","i","g","n","S","y","s","t","e","m",".","A","n","i","m","a","t","i","o","n",".","e","a","s","e","S","t","a","n","d","a","r","d">>)
>>

HAPTIC_REPLACEMENTS == <<
  \* line 124: HapticManager\.shared\.lightTap\(\)  ->  DesignSystem.HapticFeedback.light()
  Rule(<<"H","a","p","t","i","c","M","a","n","a","g","e","r",".","s","h","a","r","e","d",".","l","i","g","h","t","T","a","p","(",")">>,
       <<"D","e","s","i","g","n","S","y","s","t","e","m",".","H","a","p","t","i","c","F","e","e","d","b","a","c","k",".","l","i","g","h","t","(",")">>),
  \* line 125: HapticManager\.shared\.mediumTap\(\)  ->  DesignSystem.HapticFeedback.medium()
  Rule(<<"H","a","p","t","i","c","M","a","n","a","g","e","r",".","s","h","a","r","e","d",".","m","e","d","i","u","m","T","a","p","(",")">>,
       <<"D","e","s","i","g","n","S","y","s","t","e","m",".","H","a","p","t","i","c","F","e","e","d","b","a","c","k",".","m","e","d","i","u","m","(",")">>),
  \* line 126: HapticManager\.shared\.success\(\)  ->  DesignSystem.HapticFeedback.success()
  Rule(<<"H","a","p","t","i","c","M","a","n","a","g","e","r",".","s","h","a","r","e","d",".","s","u","c","c","e","s","s","(",")">>,
       <<"D","e","s","i","g","n","S","y","s","t","e","m",".","H","a","p","t","i","c","F","e","e","d","b","a","c","k",".","s","u","c","c","e","s","s","(",")">>),
  \* line 127: HapticManager\.shared\.warning\(\)  ->  DesignSystem.HapticFeedback.warning()
  Rule(<<"H","a","p","t","i","c","M","a","n","a","g","e","r",".","s","h","a","r","e","d",".","w","a","r","n","i","n","g","(",")">>,
       <<"D","e","s","i","g","n","S","y","s","t","e","m",".","H","a","p","t","i","c","F","e","e","d","b","a","c","k",".","w","a","r","n","i","n","g","(",")">>),
  \* line 128: HapticManager\.shared\.selectionChanged\(\)  ->  DesignSystem.HapticFeedback.selection()
  Rule(<<"H","a","p","t","i","c","M","a","n","a","g","e","r",".","s","h","a","r","e","d",".","s","e","l","e","c","t","i","o","n","C","h","a","n","g","e","d","(",")">>,
       <<"D","e","s","i","g","n","S","y","s","t","e","m",".","H","a","p","t","i","c","F","e","e","d","b","a","c","k",".","s","e","l","e","c","t","i","o","n","(",")">>)
>>

PADDING_REPLACEMENTS == <<
  \* line 133: \.padding\(24\)  ->  .padding(DesignSystem.Spacing.cardPadding)
  Rule(<<".","p","a","d","d","i","n","g","(","2","4",")">>,
       <<".","p","a","d","d","i","n","g","(","D","e","s","i","g","n","S","y","s","t","e","m",".","S","p","a","c","i","n","g",".","c","a","r","d","P","a","d","d","i","n","g",")">>),
  \* line 134: \.padding\(16\)  ->  .padding(DesignSystem.Spacing.inlinePadding)
  Rule(<<".","p","a","d","d","i","n","g","(","1","6",")">>,
       <<".","p","a","d","d","i","n","g","(","D","e","s","i","g","n","S","y","s","t","e","m",".","S","p","a","c","i","n","g",".","i","n","l","i","n","e","P","a","d","d","i","n","g",")">>),
  \* line 135: \.padding\(20\)  ->  .padding(DesignSystem.Spacing.listItemPadding)
  Rule(<<".","p","a","d","d","i","n","g","(","2","0",")">>,
       <<".","p","a","d","d","i","n","g","(","D","e","s","i","g","n","S","y","s","t","e","m",".","S","p","a","c","i","n","g",".","l","i","s","t","I","t","e","m","P","a","d","d","i","n","g",")">>),
  \* line 136: \.padding\(\.horizontal,\s*24\)  ->  .padding(.horizontal, DesignSystem.Spacing.cardPadding)
  Rule(<<".","p","a","d","d","i","n","g","(",".","h","o","r","i","z","o","n","t","a","l",",","\\s*","2","4",")">>,
       <<".","p","a","d","d","i","n","g","(",".","h","o","r","i","z","o","n","t","a","l",","," ","D","e","s","i","g","n","S","y","s","t","e","m",".","S","p","a","c","i","n","g",".","c","a","r","d","P","a","d","d","i","n","g",")">>),
  \* line 137: \.padding\(\.horizontal,\s*16\)  ->  .padding(.horizontal, DesignSystem.Spacing.inlinePadding)
  Rule(<<".","p","a","d","d","i","n","g","(",".","h","o","r","i","z","o","n","t","a","l",",","\\s*","1","6",")">>,
       <<".","p","a","d","d","i","n","g","(",".","h","o","r","i","z","o","n","t","a","l",","," ","D","e","s","i","g","n","S","y","s","t","e","m",".","S","p","a","c","i","n","g",".","i","n","l","i","n","e","P","a","d","d","i","n","g",")">>),
  \* line 138: \.padding\(\.horizontal,\s*20\)  ->  .padding(.horizontal, DesignSystem.Spacing.listItemPadding)
  Rule(<<".","p","a","d","d","i","n","g","(",".","h","o","r","i","z","o","n","t","a","l",",","\\s*","2","0",")">>,
       <<".","p","a","d","d","i","n","g","(",".","h","o","r","i","z","o","n","t","a","l",","," ","D","e","s","i","g","n","S","y","s","t","e","m",".","S","p","a","c","i","n","g",".","l","i","s","t","I","t","e","m","P","a","d","d","i","n","g",")">>)
>>

\* The literals of process_file.

\* line 171/173: 'import SwiftUI'
IMPORT_SWIFTUI == <<"i","m","p","o","r","t"," ","S","w","i","f","t","U","I">>

\* line 173: 'import SwiftUI\nimport DesignSystem'
IMPORT_BOTH == <<"i","m","p","o","r","t"," ","S","w","i","f","t","U","I","\n","i","m","p","o","r","t"," ","D","e","s","i","g","n","S","y","s","t","e","m">>

\* line 171: 'DesignSystem'
DESIGN_SYSTEM == <<"D","e","s","i","g","n","S","y","s","t","e","m">>


\* ------------------------------------------------------------------------
\* process_file, the text it computes (lines 147-173)
\* ------------------------------------------------------------------------

\* Lines 150-166: the six tables, in the order of the source.
ApplyAllTables(s) ==
  ApplyTable(PADDING_REPLACEMENTS,
    ApplyTable(HAPTIC_REPLACEMENTS,
      ApplyTable(ANIMATION_REPLACEMENTS,
        ApplyTable(CORNER_RADIUS_REPLACEMENTS,
          ApplyTable(OPACITY_REPLACEMENTS,
            ApplyTable(COLOR_REPLACEMENTS, s))))))

\* Line 171: the condition under which the import line is added.
NeedsImport(content) ==
  Contains(IMPORT_SWIFTUI, content) /\ ~Contains(DESIGN_SYSTEM, content)

\* Lines 171-173.
AddImport(content) ==
  IF NeedsImport(content)
  THEN ReplaceFirst(content, IMPORT_SWIFTUI, IMPORT_BOTH)
  ELSE content

\* Line 169: was the file modified?
ChangedAlways(content, original) == TRUE

Changed(content, original) == content # original

\* Lines 147-177: the text process_file leaves in a file that held
\* `original` when no call fails.
Rewritten(original) ==
  LET content == ApplyAllTables(original)
  IN  IF Changed(content, original) THEN AddImport(content) ELSE original

\* The constants of main.

\* line 13
BASE_DIR == <<"/","U","s","e","r","s","/","k","r","i","s","/","E","p","i","l","o","g","u","e","/","E","p","i","l","o","g","u","e","/","E","p","i","l","o","g","u","e">>

\* os.path.join separator
SEP == <<"/">>

\* line 200
SWIFT_EXT == <<".","s","w","i","f","t">>

\* line 194
SKIP_DESIGN_SYSTEM == <<"D","e","s","i","g","n","S","y","s","t","e","m",".","s","w","i","f","t">>

\* line 196
SKIP_BUILD == <<".","b","u","i","l","d">>

\* line 196
SKIP_DERIVED == <<"D","e","r","i","v","e","d","D","a","t","a">>

\* Names of the directories and files of the modelled trees.

\* 'Views'
N_Views == <<"V","i","e","w","s">>

\* 'Core'
N_Core == <<"C","o","r","e">>

\* 'DerivedData'
N_DerivedData == <<"D","e","r","i","v","e","d","D","a","t","a">>

\* 'DerivedDataCache'
N_DerivedDataCache == <<"D","e","r","i","v","e","d","D","a","t","a","C","a","c","h","e">>

\* '.build'
N_build == <<".","b","u","i","l","d">>

\* 'debug'
N_debug == <<"d","e","b","u","g">>

\* 'DesignSystem.swift'
N_DesignSystem_swift == <<"D","e","s","i","g","n","S","y","s","t","e","m",".","s","w","i","f","t">>

\* 'Book.swift'
N_Book_swift == <<"B","o","o","k",".","s","w","i","f","t">>

\* 'Gen.swift'
N_Gen_swift == <<"G","e","n",".","s","w","i","f","t">>

\* 'Cache.swift'
N_Cache_swift == <<"C","a","c","h","e",".","s","w","i","f","t">>

\* 'Pkg.swift'
N_Pkg_swift == <<"P","k","g",".","s","w","i","f","t">>

\* 'Info.plist'
N_Info_plist == <<"I","n","f","o",".","p","l","i","s","t">>

\* 'Tokens.swift'
N_Tokens_swift == <<"T","o","k","e","n","s",".","s","w","i","f","t">>

\* 'App.swift'
N_App_swift == <<"A","p","p",".","s","w","i","f","t">>

\* The sample file contents.

\* 'Text(t)'
S_plain == <<"T","e","x","t","(","t",")">>

\* '.opacity(0.13)'
S_opacity == <<".","o","p","a","c","i","t","y","(","0",".","1","3",")">>

\* ------------------------------------------------------------------------
\* main: the directory tree, the walk and the processing loop (lines 185-211)
\* ------------------------------------------------------------------------

\* Bounds of the run model: files in the tree, failing calls in one run.
MaxFiles == 2

MaxFaults == 1

\* A file of the tree: the directory names below BASE_DIR, and its name.
File(d, n) == [dir |-> d, name |-> n]

Candidates ==
  { File(<< >>, N_App_swift),
    File(<<N_Views>>, N_Book_swift),
    File(<<N_Views>>, N_Info_plist),
    File(<<N_Core>>, N_DesignSystem_swift),
    File(<<N_DerivedData>>, N_Gen_swift),
    File(<<N_DerivedDataCache>>, N_Cache_swift),
    File(<<N_build, N_debug>>, N_Pkg_swift),
    File(<<N_DesignSystem_swift>>, N_Tokens_swift) }

\* The texts a file of the tree may hold at the start.
Samples == {S_plain, S_opacity}

\* The tables' result and process_file's result for each sample.
TablesOf == [s \in Samples |-> ApplyAllTables(s)]

RewrittenOf == [s \in Samples |-> Rewritten(s)]

\* os.path.join(top, d1, ..., dn): the `root` os.walk reports for a directory.
RECURSIVE RootPath(_)
RootPath(d) ==
  IF d = << >> THEN BASE_DIR
  ELSE RootPath(SubSeq(d, 1, Len(d) - 1)) \o SEP \o d[Len(d)]

\* os.path.join(root, file), line 201.
FilePath(f) == RootPath(f.dir) \o SEP \o f.name

\* file.endswith(suffix), line 200.
EndsWith(s, suffix) ==
  /\ Len(s) >= Len(suffix)
  /\ SubSeq(s, Len(s) - Len(suffix) + 1, Len(s)) = suffix

\* Lines 194-197: the two `continue` tests on the directory path.
SkipRoot(root) ==
  \/ Contains(SKIP_DESIGN_SYSTEM, root)
  \/ Contains(SKIP_BUILD, root) \/ Contains(SKIP_DERIVED, root)

\* The directories of a tree: every prefix of a file's directory.
DirsOf(t) == UNION {{SubSeq(f.dir, 1, n) : n \in 0..Len(f.dir)} : f \in t}

SubDirs(t, d) ==
  {e \in DirsOf(t) : Len(e) = Len(d) + 1 /\ SubSeq(e, 1, Len(d)) = d}

FilesIn(t, d) == {f.name : f \in {g \in t : g.dir = d}}

\* The orders in which a directory listing may come (os.scandir's order is
\* not specified).
Orders(S) ==
  {q \in [1..Cardinality(S) -> S] :
     \A a, b \in 1..Cardinality(S) : a # b => q[a] # q[b]}

\* [os.path.join(root, file) for file in files if file.endswith('.swift')]
RECURSIVE SwiftIn(_, _)
SwiftIn(root, files) ==
  IF files = << >> THEN << >>
  ELSE (IF EndsWith(Head(files), SWIFT_EXT)
        THEN <<root \o SEP \o Head(files)>> ELSE << >>)
       \o SwiftIn(root, Tail(files))

VARIABLES
  \* apply_design_system.py, one run of main
  tree,            \* the files below BASE_DIR
  disk,            \* path -> the text stored in the file
  orig,            \* path -> the text stored when the run started
  stack,           \* os.walk: the directories still to be reported
  swift_files,     \* line 191
  idx,             \* position of the loop of line 206 in swift_files
  modified_count,  \* line 205
  pc,              \* where the run is
  pending,         \* process_file's `content` once the file is to be written
  calls,           \* path -> number of process_file calls on it
  result,          \* path -> what process_file returned for it
  opened,          \* path -> open(filepath, 'w') was called on it
  failed,          \* path -> the call of process_file that raised, if any
  faults,          \* calls that raised so far
  \* the rewriting of one text, applied twice
  text, once, twice, quantized, stage,
  \* fix_icon_alpha.py
  img, out, ipc

runVars == <<tree, disk, orig, stack, swift_files, idx, modified_count, pc,
             pending, calls, result, opened, failed, faults>>

textVars == <<text, once, twice, quantized, stage>>

imageVars == <<img, out, ipc>>

vars == <<runVars, textVars, imageVars>>

\* The parts of the state a specification does not use.
RunIdle ==
  /\ tree = {} /\ disk = << >> /\ orig = << >> /\ stack = << >>
  /\ swift_files = << >> /\ idx = 0 /\ modified_count = 0 /\ pc = "off"
  /\ pending = << >> /\ calls = << >> /\ result = << >> /\ opened = << >>
  /\ failed = << >> /\ faults = 0

TextIdle ==
  /\ text = << >> /\ once = << >> /\ twice = << >> /\ quantized = << >>
  /\ stage = "off"

NoImage == [mode |-> "none", size |-> <<0, 0>>, data |-> << >>]

ImageIdle == img = NoImage /\ out = NoImage /\ ipc = "off"

Paths(t) == {FilePath(f) : f \in t}

\* The state when main starts: a tree of at most MaxFiles files, each
\* holding one of the sample texts.
Init ==
  /\ tree \in {t \in SUBSET Candidates : Cardinality(t) \in 1..MaxFiles}
  /\ disk \in [Paths(tree) -> Samples]
  /\ orig = disk
  /\ stack = << << >> >>
  /\ swift_files = << >>
  /\ idx = 0
  /\ modified_count = 0
  /\ pc = "walk"
  /\ pending = << >>
  /\ calls = [p \in Paths(tree) |-> 0]
  /\ result = [p \in Paths(tree) |-> "none"]
  /\ opened = [p \in Paths(tree) |-> FALSE]
  /\ failed = [p \in Paths(tree) |-> "no"]
  /\ faults = 0
  /\ TextIdle /\ ImageIdle

\* Lines 192-201, one iteration of the loop over os.walk(BASE_DIR): the next
\* directory is reported with its listing; a skipped directory contributes
\* no file, and the walk still descends into its subdirectories.
WalkStep ==
  /\ pc = "walk" /\ stack # << >>
  /\ LET d == Head(stack)
         root == RootPath(d)
     IN  \E dirs \in Orders(SubDirs(tree, d)), files \in Orders(FilesIn(tree, d)) :
           /\ swift_files' = IF SkipRoot(root) THEN swift_files
                             ELSE swift_files \o SwiftIn(root, files)
           /\ stack' = dirs \o Tail(stack)
  /\ UNCHANGED <<tree, disk, orig, idx, modified_count, pc, pending, calls,
                 result, opened, failed, faults, textVars, imageVars>>

\* Lines 203-206: the walk is over, the processing loop starts.
FoundFiles ==
  /\ pc = "walk" /\ stack = << >>
  /\ pc' = "loop" /\ idx' = 1 /\ modified_count' = 0
  /\ UNCHANGED <<tree, disk, orig, stack, swift_files, pending, calls, result,
                 opened, failed, faults, textVars, imageVars>>

\* process_file returns v to the loop of lines 206-209.
Return(p, v) ==
  /\ result' = [result EXCEPT ![p] = IF v THEN "True" ELSE "False"]
  /\ modified_count' = IF v THEN modified_count + 1 ELSE modified_count
  /\ idx' = idx + 1
  /\ pc' = "loop"
  /\ pending' = << >>

\* A call of process_file raises and nothing catches it: the run ends.
RaiseUncaught(p, where) ==
  /\ failed' = [failed EXCEPT ![p] = where]
  /\ faults' = faults + 1
  /\ pc' = "crashed"
  /\ UNCHANGED <<result, modified_count, idx, pending>>

\* Lines 181-183: a call of process_file raises; the handler returns False.
Raise(p, where) ==
  /\ failed' = [failed EXCEPT ![p] = where]
  /\ faults' = faults + 1
  /\ Return(p, FALSE)

\* Lines 144-169 and 180: the file is read, the tables are applied and the
\* result is compared with what was read.  A file is read before anything
\* is written to it, so the text read is one of Samples, and TablesOf holds
\* ApplyAllTables of it.
ReadAndTransform ==
  /\ pc = "loop" /\ idx <= Len(swift_files)
  /\ LET p == swift_files[idx]
         original == disk[p]
         content == TablesOf[original]
     IN  /\ calls' = [calls EXCEPT ![p] = @ + 1]
         /\ IF Changed(content, original)
            THEN /\ pending' = AddImport(content)
                 /\ pc' = "open"
                 /\ UNCHANGED <<result, modified_count, idx>>
            ELSE Return(p, FALSE)
  /\ UNCHANGED <<tree, disk, orig, stack, swift_files, opened, failed, faults,
                 textVars, imageVars>>

\* Lines 144-166 raise (the file cannot be opened or decoded, a table fails).
ReadFails ==
  /\ pc = "loop" /\ idx <= Len(swift_files) /\ faults < MaxFaults
  /\ calls' = [calls EXCEPT ![swift_files[idx]] = @ + 1]
  /\ Raise(swift_files[idx], "read")
  /\ UNCHANGED <<tree, disk, orig, stack, swift_files, opened,
                 textVars, imageVars>>

\* Line 176: open(filepath, 'w') truncates the file.
OpenForWrite ==
  /\ pc = "open"
  /\ opened' = [opened EXCEPT ![swift_files[idx]] = TRUE]
  /\ disk' = [disk EXCEPT ![swift_files[idx]] = << >>]
  /\ pc' = "write"
  /\ UNCHANGED <<tree, orig, stack, swift_files, idx, modified_count, pending,
                 calls, result, failed, faults, textVars, imageVars>>

\* Line 176 raises (no permission): the file keeps its content.
OpenFails ==
  /\ pc = "open" /\ faults < MaxFaults
  /\ opened' = [opened EXCEPT ![swift_files[idx]] = TRUE]
  /\ Raise(swift_files[idx], "open")
  /\ UNCHANGED <<tree, disk, orig, stack, swift_files, calls,
                 textVars, imageVars>>

\* Lines 177-179 and 207-209: the text is written, the file closed, True
\* returned and counted.
WriteAndClose ==
  /\ pc = "write"
  /\ disk' = [disk EXCEPT ![swift_files[idx]] = pending]
  /\ Return(swift_files[idx], TRUE)
  /\ UNCHANGED <<tree, orig, stack, swift_files, calls, opened, failed, faults,
                 textVars, imageVars>>

\* Line 177 or the close raises (the disk is full): some proper prefix of
\* the text has reached the file.
WriteFails ==
  /\ pc = "write" /\ faults < MaxFaults
  /\ \E k \in 0..(Len(pending) - 1) :
       disk' = [disk EXCEPT ![swift_files[idx]] = SubSeq(pending, 1, k)]
  /\ Raise(swift_files[idx], "write")
  /\ UNCHANGED <<tree, orig, stack, swift_files, calls, opened,
                 textVars, imageVars>>

\* Line 211: the summary.
Summary ==
  /\ pc = "loop" /\ idx > Len(swift_files)
  /\ pc' = "done"
  /\ UNCHANGED <<tree, disk, orig, stack, swift_files, idx, modified_count,
                 pending, calls, result, opened, failed, faults,
                 textVars, imageVars>>

\* The process is killed from outside.
Kill ==
  /\ pc \in {"walk", "loop", "open", "write"}
  /\ pc' = "killed"
  /\ UNCHANGED <<tree, disk, orig, stack, swift_files, idx, modified_count,
                 pending, calls, result, opened, failed, faults,
                 textVars, imageVars>>

\* The steps the program itself takes.
Step ==
  \/ WalkStep \/ FoundFiles
  \/ ReadAndTransform \/ ReadFails
  \/ OpenForWrite \/ OpenFails
  \/ WriteAndClose \/ WriteFails
  \/ Summary

Next == Step \/ Kill

Spec == Init /\ [][Next]_vars

\* The run when nothing kills the process: the interpreter goes on taking
\* the program's next step as long as there is one.
SpecFair == Init /\ [][Step]_vars /\ WF_vars(Step)

\* Fragments of Swift source the input texts are built from.

\* 'Color'
F_Color == <<"C","o","l","o","r">>

\* '.white'
F_white == <<".","w","h","i","t","e">>

\* '.opacity(0.7)'
F_opacity7 == <<".","o","p","a","c","i","t","y","(","0",".","7",")">>

\* '.opacity(0.28)'
F_opacity28 == <<".","o","p","a","c","i","t","y","(","0",".","2","8",")">>

\* '.opacity(0.13)'
F_opacity13 == <<".","o","p","a","c","i","t","y","(","0",".","1","3",")">>

\* '.opacity(0.50)'
F_opacity50 == <<".","o","p","a","c","i","t","y","(","0",".","5","0",")">>

\* 'import SwiftUI\n'
F_importSwiftUI == <<"i","m","p","o","r","t"," ","S","w","i","f","t","U","I","\n">>

\* 'import DesignSystem\n'
F_importDesignSystem == <<"i","m","p","o","r","t"," ","D","e","s","i","g","n","S","y","s","t","e","m","\n">>

\* '.padding(24)'
F_padding24 == <<".","p","a","d","d","i","n","g","(","2","4",")">>

\* 'Text(t)'
F_text == <<"T","e","x","t","(","t",")">>

\* 'cornerRadius: 14'
F_corner == <<"c","o","r","n","e","r","R","a","d","i","u","s",":"," ","1","4">>

\* '.easeInOut(duration: 0.2)'
F_ease == <<".","e","a","s","e","I","n","O","u","t","(","d","u","r","a","t","i","o","n",":"," ","0",".","2",")">>

\* 'HapticManager.shared.success()'
F_haptic == <<"H","a","p","t","i","c","M","a","n","a","g","e","r",".","s","h","a","r","e","d",".","s","u","c","c","e","s","s","(",")">>

\* '.opacity(0.'
OPACITY_OPEN == <<".","o","p","a","c","i","t","y","(","0",".">>

\* '.opacity(1.0)'
OPACITY_ONE == <<".","o","p","a","c","i","t","y","(","1",".","0",")">>

\* 'import DesignSystem'
IMPORT_DESIGN_SYSTEM == <<"i","m","p","o","r","t"," ","D","e","s","i","g","n","S","y","s","t","e","m">>

\* 'Color'
COLOR_WORD == <<"C","o","l","o","r">>

\* ------------------------------------------------------------------------
\* The rewriting as a function of one text: process_file applied to a file,
\* and applied again to what it wrote
\* ------------------------------------------------------------------------

\* Bound: fragments concatenated into one input text.
MaxFrags == 3

Fragments ==
  {F_Color, F_white, F_opacity7, F_opacity28, F_opacity13, F_opacity50,
   F_importSwiftUI, F_importDesignSystem, F_padding24, F_text,
   F_corner, F_ease, F_haptic}

RECURSIVE Concat(_)
Concat(fs) == IF fs = << >> THEN << >> ELSE Head(fs) \o Concat(Tail(fs))

\* The texts made of 1 to m fragments.
FragmentTexts(m) ==
  UNION {{Concat(fs) : fs \in [1..n -> Fragments]} : n \in 1..m}

DigitChar == <<"0","1","2","3","4","5","6","7","8","9">>

\* The text `.opacity(0.dd)` for the two-digit number n = dd.
OpacityLiteral(n) ==
  OPACITY_OPEN \o <<DigitChar[(n \div 10) + 1], DigitChar[(n % 10) + 1], ")">>

\* Every `.opacity(0.dd)`, dd from lo to hi.
OpacityTexts(lo, hi) == {OpacityLiteral(n) : n \in lo..hi}

TextInit ==
  /\ text \in FragmentTexts(MaxFrags) \cup OpacityTexts(0, 99)
  /\ once = << >> /\ twice = << >> /\ quantized = << >>
  /\ stage = "input"
  /\ RunIdle /\ ImageIdle

\* Lines 153-154 alone: the opacity table applied to the text.
Quantize ==
  /\ stage = "input"
  /\ quantized' = ApplyTable(OPACITY_REPLACEMENTS, text)
  /\ stage' = "quantized"
  /\ UNCHANGED <<text, once, twice, runVars, imageVars>>

\* process_file on a file holding `text`.
FirstPass ==
  /\ stage = "input"
  /\ once' = Rewritten(text)
  /\ stage' = "once"
  /\ UNCHANGED <<text, twice, quantized, runVars, imageVars>>

\* process_file on the file the first pass left.
SecondPass ==
  /\ stage = "once"
  /\ twice' = Rewritten(once)
  /\ stage' = "twice"
  /\ UNCHANGED <<text, once, quantized, runVars, imageVars>>

TextNext == Quantize \/ FirstPass \/ SecondPass

SpecText == TextInit /\ [][TextNext]_vars

\* ------------------------------------------------------------------------
\* fix_icon_alpha.py: remove_alpha (lines 11-36)
\* ------------------------------------------------------------------------

\* Bounds: width and height of the input image.
MaxWidth == 2

MaxHeight == 2

\* Pixel values of the input images, per mode (bands as in Pillow).
PixelsOf(mode) ==
  CASE mode = "RGBA" -> {<<0, 0, 0, 0>>, <<255, 0, 0, 255>>, <<10, 200, 30, 128>>}
    [] mode = "LA"   -> {<<0, 0>>, <<77, 255>>, <<200, 128>>}
    [] mode = "RGB"  -> {<<255, 0, 0>>, <<1, 2, 3>>}
    [] mode = "L"    -> {<<0>>, <<200>>}
    [] mode = "P"    -> {<<0>>, <<7>>}

\* The modes Pillow gives a PNG file that the model covers: with an alpha
\* channel RGBA and LA, without one RGB, L and P (palette indices).
Modes == {"RGBA", "LA", "RGB", "L", "P"}

\* An image: its mode, its size (width, height) and its pixels, row by row.
Images(maxw, maxh) ==
  UNION {UNION {UNION {
    {[mode |-> m, size |-> <<w, h>>, data |-> d] : d \in [1..(w * h) -> PixelsOf(m)]}
      : h \in 1..maxh} : w \in 1..maxw} : m \in Modes}

\* Line 18.
HasAlpha(im) == im.mode \in {"RGBA", "LA"}

\* Line 20: Image.new('RGB', size, color).
ImageNew(mode, size, color) ==
  [mode |-> mode, size |-> size, data |-> [k \in 1..(size[1] * size[2]) |-> color]]

\* Lines 25 and 27: the index into img.split() of the band used as the mask
\* (1-based here: split()[3] of RGBA, split()[1] of LA).
MaskBandFirst(mode) == 1

MaskBand(mode) == IF mode = "RGBA" THEN 4 ELSE 2

\* img.split()[b]: one band as an image of mode L.
Band(im, b) ==
  [mode |-> "L", size |-> im.size, data |-> [k \in DOMAIN im.data |-> <<im.data[k][b]>>]]

\* The colour bands paste takes from a source pixel for an RGB target: an
\* LA pixel is grey, its three colour bands equal.
AsRGB(mode, px) ==
  IF mode = "LA" THEN <<px[1], px[1], px[1]>> ELSE <<px[1], px[2], px[3]>>

\* Pillow's blend of one band under an 8-bit mask value.
Blend(m, under, over) ==
  IF m = 0 THEN under
  ELSE IF m = 255 THEN over
  ELSE LET t == under * (255 - m) + over * m + 128
       IN  ((t \div 256) + t) \div 256

\* background.paste(img, mask = ...), lines 25 and 27.
Paste(background, im, mask) ==
  [background EXCEPT !.data =
     [k \in DOMAIN background.data |->
        LET src == AsRGB(im.mode, im.data[k])
            m == mask.data[k][1]
        IN  [c \in 1..3 |-> Blend(m, background.data[k][c], src[c])]]]

White == <<255, 255, 255>>

\* Lines 15-36: the image remove_alpha saves to output_path.
Flattened(im) ==
  IF HasAlpha(im)
  THEN Paste(ImageNew("RGB", im.size, White), im, Band(im, MaskBand(im.mode)))
  ELSE im

ImageInit ==
  /\ img \in Images(MaxWidth, MaxHeight)
  /\ out = NoImage
  /\ ipc = "start"
  /\ RunIdle /\ TextIdle

\* remove_alpha(input_path, output_path).
RemoveAlpha ==
  /\ ipc = "start"
  /\ out' = Flattened(img)
  /\ ipc' = "saved"
  /\ UNCHANGED <<img, runVars, textVars>>

ImageNext == RemoveAlpha

SpecImage == ImageInit /\ [][ImageNext]_vars

\* ------------------------------------------------------------------------
\* Properties of a run of main
\* ------------------------------------------------------------------------

Listed == {swift_files[k] : k \in DOMAIN swift_files}

\* C1: a file that was read is opened for writing if and only if the text
\* the six tables make of it differs from the text read; a file the tables
\* leave alone is never opened for writing and keeps its content, and so
\* does a file that could not be read.
C1_WriteIffTablesChange ==
  \A p \in DOMAIN disk :
    /\ (result[p] # "none" /\ failed[p] # "read")
         => (opened[p] <=> TablesOf[orig[p]] # orig[p])
    /\ TablesOf[orig[p]] = orig[p] => (~opened[p] /\ disk[p] = orig[p])
    /\ failed[p] = "read" => (~opened[p] /\ disk[p] = orig[p])

\* C1, its case: the run has ended, one file was changed by the tables and
\* written, another was left alone by them and not opened for writing.
C1_Witness ==
  /\ pc = "done"
  /\ \E p, q \in DOMAIN disk :
       /\ result[p] = "True" /\ opened[p] /\ disk[p] # orig[p]
       /\ result[q] = "False" /\ failed[q] = "no" /\ ~opened[q]
       /\ TablesOf[orig[q]] = orig[q]

\* The names of the directories the discovery is meant to leave out.
ExcludedNames == {N_build, N_DerivedData, N_DesignSystem_swift}

\* The files the discovery is meant to return: the .swift files that lie
\* under no directory with an excluded name.
Expected(t) ==
  {FilePath(f) : f \in {g \in t : /\ EndsWith(g.name, SWIFT_EXT)
                                  /\ \A n \in 1..Len(g.dir) : g.dir[n] \notin ExcludedNames}}

\* C5: once the walk is over, the list holds exactly the .swift files that
\* lie under no directory named .build, DerivedData or DesignSystem.swift.
C5_DiscoveryExact ==
  pc \in {"loop", "open", "write", "done"} => Listed = Expected(tree)

\* C6: no path containing DesignSystem.swift is listed or processed.
C6_DesignSystemFileUntouched ==
  \A p \in DOMAIN disk :
    Contains(SKIP_DESIGN_SYSTEM, p) => (p \notin Listed /\ calls[p] = 0)

\* What C7 says of every state of a run.
FailureIsolated ==
  /\ pc \in {"walk", "loop", "open", "write", "done"}
  /\ \A p \in DOMAIN disk :
       /\ failed[p] # "no" => result[p] = "False"
       /\ result[p] = "True" => disk[p] = RewrittenOf[orig[p]]
       /\ calls[p] <= 1
  /\ modified_count = Cardinality({p \in DOMAIN disk : result[p] = "True"})
  /\ pc = "done" =>
       \A p \in Listed : calls[p] = 1 /\ result[p] # "none"

\* C7: a call of process_file that fails returns False and is not counted,
\* no file is processed twice, a file that was written keeps the rewritten
\* text, and the run reaches the summary with every listed file processed
\* exactly once.
C7_FailureIsolation == [](FailureIsolated) /\ <>(pc = "done")

\* C7, its case: the run has ended; a file was written, a call on another
\* file failed.
C7_Witness ==
  /\ pc = "done"
  /\ \E a, b \in DOMAIN swift_files :
       /\ a < b
       /\ failed[swift_files[a]] # "no"
       /\ result[swift_files[b]] = "True"

\* C8: at every moment every file holds its complete original text or its
\* complete rewritten text, and a file not yet processed its original text.
C8_NoPartialWrites ==
  \A p \in DOMAIN disk :
    /\ disk[p] \in {orig[p], RewrittenOf[orig[p]]}
    /\ calls[p] = 0 => disk[p] = orig[p]

\* ------------------------------------------------------------------------
\* Properties of the rewriting of one text
\* ------------------------------------------------------------------------

\* Number of (possibly overlapping) places at which needle occurs in s.
Count(needle, s) ==
  Cardinality({k \in 1..Len(s) :
                 /\ k + Len(needle) - 1 <= Len(s)
                 /\ SubSeq(s, k, k + Len(needle) - 1) = needle})

\* C2: a second pass over what the first pass wrote changes nothing.
C2_Idempotent == stage = "twice" => twice = once

\* C3: a text with `import SwiftUI` and without `import DesignSystem`, into
\* which the tables bring a DesignSystem reference, gains the one line
\* `import DesignSystem` right after the first `import SwiftUI`; a text that
\* has the import gains no second one; a text whose rewritten form has no
\* DesignSystem reference gains no import.
C3_ImportInsertion ==
  stage = "once" =>
    LET t == ApplyAllTables(text)
    IN  /\ ( /\ Contains(IMPORT_SWIFTUI, text)
             /\ ~Contains(IMPORT_DESIGN_SYSTEM, text)
             /\ Count(DESIGN_SYSTEM, t) > Count(DESIGN_SYSTEM, text) )
           => once = ReplaceFirst(t, IMPORT_SWIFTUI, IMPORT_BOTH)
        /\ Contains(IMPORT_DESIGN_SYSTEM, text)
           => Count(IMPORT_DESIGN_SYSTEM, once) = Count(IMPORT_DESIGN_SYSTEM, text)
        /\ ~Contains(DESIGN_SYSTEM, t) => once = t

\* The multiple of 5 nearest to n (no integer is halfway between two).
Nearest5(n) == 5 * ((n + 2) \div 5)

\* `.opacity(v)` for v = n/100 rounded to the nearest multiple of 0.05, in
\* the spelling of the table: a multiple of 0.05 keeps its two digits, and
\* 1 is spelled 1.0.
OpacityRounded(n) ==
  IF Nearest5(n) = 100 THEN OPACITY_ONE ELSE OpacityLiteral(Nearest5(n))

\* C4: the opacity table turns `.opacity(0.dd)`, dd from 03 to 99, into
\* `.opacity(v)` with v the multiple of 0.05 nearest to 0.dd.
C4_OpacityQuantized ==
  stage = "quantized" =>
    \A n \in 3..99 : text = OpacityLiteral(n) => quantized = OpacityRounded(n)

\* Does the pattern match somewhere in s?
Occurs(pat, s) == SearchFrom(pat, s, 1) > 0

\* C10: where `Color.white.opacity(0.7...)`, `(0.5...)` or `(0.3...)` occurs
\* (rules 6 to 8 of the color table), the rewritten text holds no `Color`
\* glued to the front of that rule's replacement.
C10_ColorRulesWhole ==
  stage = "once" =>
    \A r \in 6..8 :
      Occurs(COLOR_REPLACEMENTS[r].pat, text)
        => ~Contains(COLOR_WORD \o COLOR_REPLACEMENTS[r].rep, once)

\* ------------------------------------------------------------------------
\* Properties of remove_alpha
\* ------------------------------------------------------------------------

\* The alpha value of a pixel of a mode with alpha: its last band.
Alpha(px) == px[Len(px)]

\* The colour of a pixel with alpha, as red, green, blue.
Colour(px) == IF Len(px) = 2 THEN <<px[1], px[1], px[1]>> ELSE <<px[1], px[2], px[3]>>

\* C9: the saved image has the size of the input; for an input with an
\* alpha channel it is RGB, white where the input was fully transparent and
\* of the input's colour where it was fully opaque; for an input without an
\* alpha channel it has the input's mode and pixels.
C9_AlphaRemoved ==
  ipc = "saved" =>
    /\ out.size = img.size
    /\ img.mode \in {"RGBA", "LA"} =>
         /\ out.mode = "RGB"
         /\ \A k \in DOMAIN img.data :
              /\ Len(out.data[k]) = 3
              /\ Alpha(img.data[k]) = 0 => out.data[k] = <<255, 255, 255>>
              /\ Alpha(img.data[k]) = 255 => out.data[k] = Colour(img.data[k])
    /\ img.mode \notin {"RGBA", "LA"} =>
         (out.mode = img.mode /\ out.data = img.data)

\* C9, its case: a 2 x 2 RGBA image, transparent at (0,0) and opaque red at
\* (1,1), has been saved white at (0,0) and red at (1,1).
C9_Witness ==
  /\ ipc = "saved"
  /\ img.mode = "RGBA" /\ img.size = <<2, 2>>
  /\ img.data[1] = <<0, 0, 0, 0>> /\ img.data[4] = <<255, 0, 0, 255>>
  /\ out.data[1] = <<255, 255, 255>> /\ out.data[4] = <<255, 0, 0>>

====
